---- MODULE Spec2Model ----
(***************************************************************************)
(* A model of pymino/ext/account.py: the Account client.  Each method      *)
(* builds one request (method, url, data, content_type), hands it to       *)
(* session.handler and wraps what the handler returns.  Several callers    *)
(* may be inside a method at once; a call is split at its one blocking     *)
(* point, the network round trip inside session.handler.                   *)
(*                                                                         *)
(* Python values are tagged records, so that values of different Python    *)
(* types can be compared: None, str, int, bool, dict, bytes.               *)
(***************************************************************************)
EXTENDS Integers, Sequences, FiniteSets, TLC

VARIABLES client, pc, call, req, resp, result, nCalls, nRequests

vars == <<client, pc, call, req, resp, result, nCalls, nRequests>>

\* The total number of method calls one behaviour makes.
MaxCalls == 2

Callers == {"c1", "c2"}

-----------------------------------------------------------------------------
(* Python values *)

None == [none |-> TRUE]
S(s) == [str |-> s]
N(n) == [int |-> n]
B(b) == [bool |-> b]
Dict(d) == [dict |-> d]
Bytes(b) == [bytes |-> b]
Ref(r) == [ref |-> r]

\* A keyword argument the caller of session.handler leaves out.
NotPassed == [notpassed |-> TRUE]

IsStr(v) == "str" \in DOMAIN v

\* What an f-string writes for {v}: format(v, "").
Format(v) == IF v = None THEN "None" ELSE v.str

\* f"0{password}": the separator left out.
SecretNoSpace(password) == S("0" \o Format(password))

\* f"0 {password}"
Secret(password) == S("0 " \o Format(password))

\* int(time()): the clock in seconds.
TimestampSeconds(us) == N(us \div 1000000)

\* int(time() * 1000), for a clock reading in microseconds since the epoch.
TimestampMs(us) == N((us * 1000) \div 1000000)

-----------------------------------------------------------------------------
(* The inputs of the calls *)

\* The arguments the callers pass.  Python checks no types: any argument may
\* be None.
RegisterArgs ==
    {[email |-> S("a@x.io"), password |-> S("pw"), username |-> S("bob"),
      verificationCode |-> S("123456")],
     [email |-> S("a@x.io"), password |-> S("pw"), username |-> S("bob"),
      verificationCode |-> None],
     [email |-> None, password |-> None, username |-> None,
      verificationCode |-> S("123456")]}
CredentialArgs == {[email |-> S("a@x.io"), password |-> S("pw")]}
ResetPasswordArgs ==
    {[email |-> S("a@x.io"), new_password |-> S("new"), code |-> S("123456")],
     [email |-> S("a@x.io"), new_password |-> S("new"), code |-> None]}
ActivateEmailArgs == {[email |-> S("a@x.io"), code |-> S("123456")]}
Emails == {S("a@x.io")}
AminoIds == {S("bobby")}
SuppliedDeviceIds == {S("abc123")}
Paths == {S("image.jpg")}

\* What device_id() may return, and what time() may read (microseconds).
DeviceIds == {"42aa", "42bb"}
ClockReadings == {1000999, 1001000}

\* What open(image, "rb").read() may find.
Missing == [missing |-> TRUE]
FileContents == {Bytes(<<255, 216>>), Missing}

-----------------------------------------------------------------------------
(* The payloads, one per method *)

\* The payload with the verification code directly in validationContext and
\* without the fields email, clientType, type and identity.
RegisterDataFlat(email, password, username, verificationCode, dev, t) ==
    [secret |-> Secret(password),
     deviceID |-> S(dev),
     nickname |-> username,
     validationContext |-> Dict([code |-> verificationCode,
                                 type |-> N(1),
                                 identity |-> email]),
     timestamp |-> TimestampMs(t)]

RegisterData(email, password, username, verificationCode, dev, t) ==
    [secret |-> Secret(password),
     deviceID |-> S(dev),
     email |-> email,
     clientType |-> N(100),
     nickname |-> username,
     validationContext |-> Dict([data |-> Dict([code |-> verificationCode]),
                                 type |-> N(1),
                                 identity |-> email]),
     type |-> N(1),
     identity |-> email,
     timestamp |-> TimestampMs(t)]

DeleteRequestData(email, password, dev, t) ==
    [secret |-> Secret(password),
     deviceID |-> S(dev),
     email |-> email,
     timestamp |-> TimestampMs(t)]

DeleteRequestCancelData(email, password, dev, t) ==
    [secret |-> Secret(password),
     deviceID |-> S(dev),
     email |-> email,
     timestamp |-> TimestampMs(t)]

CheckDeviceData(deviceId, t) ==
    [deviceID |-> deviceId,
     clientType |-> N(100),
     timezone |-> N(-310),
     systemPushEnabled |-> B(TRUE),
     timestamp |-> TimestampMs(t)]

SetAminoIdData(aminoId, t) ==
    [aminoId |-> aminoId,
     timestamp |-> TimestampMs(t)]

\* The payload with level and purpose left out when resetPassword is false.
RequestSecurityValidationDataOmitting(email, resetPassword, dev, t) ==
    IF resetPassword
    THEN [identity |-> email, type |-> N(1), deviceID |-> S(dev),
          level |-> N(2), purpose |-> S("reset-password"),
          timestamp |-> TimestampMs(t)]
    ELSE [identity |-> email, type |-> N(1), deviceID |-> S(dev),
          timestamp |-> TimestampMs(t)]

RequestSecurityValidationData(email, resetPassword, dev, t) ==
    [identity |-> email,
     type |-> N(1),
     deviceID |-> S(dev),
     level |-> IF resetPassword THEN N(2) ELSE None,
     purpose |-> IF resetPassword THEN S("reset-password") ELSE None,
     timestamp |-> TimestampMs(t)]

ActivateEmailData(email, code, dev, t) ==
    [type |-> N(1),
     identity |-> email,
     data |-> Dict([code |-> code]),
     deviceID |-> S(dev),
     timestamp |-> TimestampMs(t)]

\* The payload without the phoneNumberValidationContext key.
ResetPasswordDataNoPhone(email, new_password, code, dev1, dev2) ==
    [updateSecret |-> Secret(new_password),
     emailValidationContext |-> Dict([data |-> Dict([code |-> code]),
                                      type |-> N(1),
                                      identity |-> email,
                                      level |-> N(2),
                                      deviceID |-> S(dev1)]),
     deviceID |-> S(dev2)]

\* device_id() is invoked twice, in the order the dict literal is written:
\* dev1 inside emailValidationContext, dev2 at the top level.
ResetPasswordData(email, new_password, code, dev1, dev2) ==
    [updateSecret |-> Secret(new_password),
     emailValidationContext |-> Dict([data |-> Dict([code |-> code]),
                                      type |-> N(1),
                                      identity |-> email,
                                      level |-> N(2),
                                      deviceID |-> S(dev1)]),
     phoneNumberValidationContext |-> None,
     deviceID |-> S(dev2)]

\* The keyword arguments of one session.handler(...) invocation.
Request(method, url, data, content_type) ==
    [method |-> method, url |-> url, data |-> data, content_type |-> content_type]

-----------------------------------------------------------------------------
(* The transport: session.handler and the response wrappers *)

\* A decoded JSON body of the platform: its status code and message, and the
\* media URL an upload answers with.
OkBody == [statuscode |-> 0, message |-> "OK", mediaValue |-> S("http://m/1.jpg")]
ErrBody(code, message) == [statuscode |-> code, message |-> message]

\* The platform's error envelope: a body whose status code is not 0.
HasErrorEnvelope(json) == json.statuscode # 0

TransportFailure == [failure |-> "timeout"]

Responses ==
    {[status |-> 200, json |-> OkBody],
     [status |-> 200, json |-> ErrBody(213, "Invalid email")],
     [status |-> 500, json |-> ErrBody(0, "Internal error")],
     TransportFailure}

NoCall == [nocall |-> TRUE]
NoRequest == [norequest |-> TRUE]
NoResponse == [noresponse |-> TRUE]
NoResult == [noresult |-> TRUE]

Returned(v) == [returned |-> v]
Raised(kind) == [raised |-> kind]
ApiError(code, message) == [raised |-> "ApiError", code |-> code, message |-> message]

IsRaised(r) == "raised" \in DOMAIN r

\* session.handler: what it returns or raises for the response it received.
Handler(response) ==
    IF response = TransportFailure
    THEN Raised("TransportError")
    ELSE IF response.status >= 400 \/ HasErrorEnvelope(response.json)
         THEN ApiError(response.json.statuscode, response.json.message)
         ELSE Returned(response.json)

\* The wrapper each method builds around the handler's return value and the
\* attribute of it the method returns.
Wrapped(kind, json) == [wrapper |-> kind, json |-> json]

Decode(op, json) ==
    CASE op = "register" -> Wrapped("Authenticate", json)
      [] op = "reset_password" -> Wrapped("ResetPassword", json)
      [] op = "fetch_wallet" -> Wrapped("Wallet", json).json
      [] op = "upload_image" -> json.mediaValue
      [] OTHER -> Wrapped("SResponse", json).json

\* A method that catches what the handler raises and returns None.
ResultSwallowing(op, outcome) ==
    IF IsRaised(outcome)
    THEN Returned(None)
    ELSE Returned(Decode(op, outcome.returned))

\* No method has a try/except: what the handler raises leaves the method
\* unchanged, and what it returns is wrapped.
ResultOf(op, outcome) ==
    IF IsRaised(outcome) THEN outcome ELSE Returned(Decode(op, outcome.returned))

\* A method that keeps its arguments on the instance.
ClientRemembering(self, cl) ==
    [k \in DOMAIN self \cup {"last"} |->
        IF k = "last" THEN Dict(cl.args) ELSE self[k]]

\* No method assigns an attribute of self.
ClientAfter(self, cl) == self

-----------------------------------------------------------------------------
(* The state *)

\* Account.__init__: the attributes of the instance.
NewAccount(session, debug) == [session |-> session, debug |-> debug]

Init ==
    /\ client = NewAccount(Ref("session"), B(FALSE))
    /\ pc = [c \in Callers |-> "idle"]
    /\ call = [c \in Callers |-> NoCall]
    /\ req = [c \in Callers |-> NoRequest]
    /\ resp = [c \in Callers |-> NoResponse]
    /\ result = [c \in Callers |-> NoResult]
    /\ nCalls = 0
    /\ nRequests = 0

\* One call: the method, its arguments, and what device_id(), time() and
\* open(...).read() gave it, in the order it asked.
CallRecord(op, args, devs, clocks, files) ==
    [op |-> op, args |-> args, devs |-> devs, clocks |-> clocks, files |-> files]

\* Caller c is not inside a method, and the behaviour has calls left.
CanCall(c) == pc[c] # "waiting" /\ nCalls < MaxCalls

\* Caller c enters a method: the arguments of session.handler are evaluated
\* and the request is handed to the transport; the caller waits for the
\* response.
Issue(c, cl, rq) ==
    /\ pc' = [pc EXCEPT ![c] = "waiting"]
    /\ call' = [call EXCEPT ![c] = cl]
    /\ req' = [req EXCEPT ![c] = rq]
    /\ resp' = [resp EXCEPT ![c] = NoResponse]
    /\ result' = [result EXCEPT ![c] = NoResult]
    /\ nCalls' = nCalls + 1
    /\ nRequests' = nRequests + 1
    /\ client' = ClientAfter(client, cl)

\* Caller c enters a method and evaluating the arguments of session.handler
\* raises: the handler is never invoked.
Abort(c, cl, exc) ==
    /\ pc' = [pc EXCEPT ![c] = "done"]
    /\ call' = [call EXCEPT ![c] = cl]
    /\ req' = [req EXCEPT ![c] = NoRequest]
    /\ resp' = [resp EXCEPT ![c] = NoResponse]
    /\ result' = [result EXCEPT ![c] = Raised(exc)]
    /\ nCalls' = nCalls + 1
    /\ UNCHANGED nRequests
    /\ client' = ClientAfter(client, cl)

-----------------------------------------------------------------------------
(* The methods *)

register(c) ==
    /\ CanCall(c)
    /\ \E a \in RegisterArgs, dev \in DeviceIds, t \in ClockReadings :
           Issue(c,
                 CallRecord("register", a, <<dev>>, <<t>>, <<>>),
                 Request("POST", "/g/s/auth/register",
                         Dict(RegisterData(a.email, a.password, a.username,
                                           a.verificationCode, dev, t)),
                         NotPassed))

delete_request(c) ==
    /\ CanCall(c)
    /\ \E a \in CredentialArgs, dev \in DeviceIds, t \in ClockReadings :
           Issue(c,
                 CallRecord("delete_request", a, <<dev>>, <<t>>, <<>>),
                 Request("POST", "/g/s/account/delete-request",
                         Dict(DeleteRequestData(a.email, a.password, dev, t)),
                         NotPassed))

delete_request_cancel(c) ==
    /\ CanCall(c)
    /\ \E a \in CredentialArgs, dev \in DeviceIds, t \in ClockReadings :
           Issue(c,
                 CallRecord("delete_request_cancel", a, <<dev>>, <<t>>, <<>>),
                 Request("POST", "/g/s/account/delete-request/cancel",
                         Dict(DeleteRequestCancelData(a.email, a.password, dev, t)),
                         NotPassed))

check_device(c) ==
    /\ CanCall(c)
    /\ \E deviceId \in SuppliedDeviceIds, t \in ClockReadings :
           Issue(c,
                 CallRecord("check_device", [deviceId |-> deviceId],
                            <<>>, <<t>>, <<>>),
                 Request("POST", "/g/s/device/check",
                         Dict(CheckDeviceData(deviceId, t)), NotPassed))

fetch_account(c) ==
    /\ CanCall(c)
    /\ Issue(c,
             CallRecord("fetch_account", <<>>, <<>>, <<>>, <<>>),
             Request("GET", "/g/s/account", NotPassed, NotPassed))

\* open(image, "rb").read() is an argument of session.handler: when it
\* raises, the handler is not invoked.
upload_image(c) ==
    /\ CanCall(c)
    /\ \E image \in Paths, content \in FileContents :
           IF content = Missing
           THEN Abort(c,
                      CallRecord("upload_image", [image |-> image],
                                 <<>>, <<>>, <<content>>),
                      "FileNotFoundError")
           ELSE Issue(c,
                      CallRecord("upload_image", [image |-> image],
                                 <<>>, <<>>, <<content>>),
                      Request("POST", "/g/s/media/upload", content,
                              S("image/jpg")))

\* The url is f"/g/s/user-profile/{self.userId}": reading an attribute the
\* instance does not have raises AttributeError.
fetch_profile(c) ==
    /\ CanCall(c)
    /\ IF "userId" \in DOMAIN client
       THEN Issue(c,
                  CallRecord("fetch_profile", <<>>, <<>>, <<>>, <<>>),
                  Request("GET", "/g/s/user-profile/" \o Format(client.userId),
                          NotPassed, NotPassed))
       ELSE Abort(c, CallRecord("fetch_profile", <<>>, <<>>, <<>>, <<>>),
                  "AttributeError")

set_amino_id(c) ==
    /\ CanCall(c)
    /\ \E aminoId \in AminoIds, t \in ClockReadings :
           Issue(c,
                 CallRecord("set_amino_id", [aminoId |-> aminoId],
                            <<>>, <<t>>, <<>>),
                 Request("POST", "/g/s/account/change-amino-id",
                         Dict(SetAminoIdData(aminoId, t)), NotPassed))

fetch_wallet(c) ==
    /\ CanCall(c)
    /\ Issue(c,
             CallRecord("fetch_wallet", <<>>, <<>>, <<>>, <<>>),
             Request("GET", "/g/s/wallet", NotPassed, NotPassed))

request_security_validation(c) ==
    /\ CanCall(c)
    /\ \E email \in Emails, resetPassword \in BOOLEAN, dev \in DeviceIds,
          t \in ClockReadings :
           Issue(c,
                 CallRecord("request_security_validation",
                            [email |-> email, resetPassword |-> resetPassword],
                            <<dev>>, <<t>>, <<>>),
                 Request("POST", "/g/s/auth/request-security-validation",
                         Dict(RequestSecurityValidationData(email, resetPassword,
                                                            dev, t)),
                         NotPassed))

activate_email(c) ==
    /\ CanCall(c)
    /\ \E a \in ActivateEmailArgs, dev \in DeviceIds, t \in ClockReadings :
           Issue(c,
                 CallRecord("activate_email", a, <<dev>>, <<t>>, <<>>),
                 Request("POST", "/g/s/auth/activate-email",
                         Dict(ActivateEmailData(a.email, a.code, dev, t)),
                         NotPassed))

reset_password(c) ==
    /\ CanCall(c)
    /\ \E a \in ResetPasswordArgs, dev1 \in DeviceIds, dev2 \in DeviceIds :
           Issue(c,
                 CallRecord("reset_password", a, <<dev1, dev2>>, <<>>, <<>>),
                 Request("POST", "/g/s/auth/reset-password",
                         Dict(ResetPasswordData(a.email, a.new_password, a.code,
                                                dev1, dev2)),
                         NotPassed))

\* The round trip of caller c's request ends: session.handler returns or
\* raises, and the method returns or raises in turn.
Respond(c) ==
    /\ pc[c] = "waiting"
    /\ \E r \in Responses :
        /\ resp' = [resp EXCEPT ![c] = r]
        /\ result' = [result EXCEPT ![c] = ResultOf(call[c].op, Handler(r))]
    /\ pc' = [pc EXCEPT ![c] = "done"]
    /\ UNCHANGED <<client, call, req, nCalls, nRequests>>

Next ==
    \E c \in Callers :
        \/ register(c)
        \/ delete_request(c)
        \/ delete_request_cancel(c)
        \/ check_device(c)
        \/ fetch_account(c)
        \/ fetch_profile(c)
        \/ upload_image(c)
        \/ set_amino_id(c)
        \/ fetch_wallet(c)
        \/ request_security_validation(c)
        \/ activate_email(c)
        \/ reset_password(c)
        \/ Respond(c)

Spec == Init /\ [][Next]_vars

-----------------------------------------------------------------------------
(* The properties *)

Sent(c) == req[c] # NoRequest
Data(c) == req[c].data
IsDict(v) == "dict" \in DOMAIN v
HasKey(v, k) == IsDict(v) /\ k \in DOMAIN v.dict
Op(c) == IF call[c] = NoCall THEN "none" ELSE call[c].op

SecretOps == {"register", "delete_request", "delete_request_cancel"}

\* C1: for every password string p, the payload of register, delete_request
\* and delete_request_cancel has secret = "0 " followed by p, the payload of
\* reset_password has updateSecret = "0 " followed by the new password, and
\* no attribute of the client holds the password or the secret.
C1_SecretIsPrefixedPassword ==
    \A c \in Callers :
        /\ (Sent(c) /\ Op(c) \in SecretOps /\ IsStr(call[c].args.password))
            => /\ HasKey(Data(c), "secret")
               /\ Data(c).dict.secret = S("0 " \o call[c].args.password.str)
               /\ \A k \in DOMAIN client :
                    client[k] \notin {call[c].args.password, Data(c).dict.secret}
        /\ (Sent(c) /\ Op(c) = "reset_password" /\ IsStr(call[c].args.new_password))
            => /\ HasKey(Data(c), "updateSecret")
               /\ Data(c).dict.updateSecret = S("0 " \o call[c].args.new_password.str)
               /\ \A k \in DOMAIN client :
                    client[k] \notin {call[c].args.new_password,
                                      Data(c).dict.updateSecret}

C1_Witness ==
    /\ pc["c1"] = "done" /\ Op("c1") = "register" /\ Sent("c1")
    /\ call["c1"].args.password = S("pw")
    /\ pc["c2"] = "done" /\ Op("c2") = "reset_password" /\ Sent("c2")
    /\ call["c2"].args.new_password = S("new")

\* C2: request_security_validation sends level = 2 and
\* purpose = "reset-password" when resetPassword is true; when it is false
\* both keys are still present and both carry None (a JSON null).  In both
\* cases identity = email and type = 1.
C2_SecurityValidationLevelAndPurpose ==
    \A c \in Callers :
        (Sent(c) /\ Op(c) = "request_security_validation")
            => /\ {"level", "purpose", "identity", "type"} \subseteq DOMAIN Data(c).dict
               /\ Data(c).dict.identity = call[c].args.email
               /\ Data(c).dict.type = N(1)
               /\ IF call[c].args.resetPassword
                  THEN /\ Data(c).dict.level = N(2)
                       /\ Data(c).dict.purpose = S("reset-password")
                  ELSE /\ Data(c).dict.level = None
                       /\ Data(c).dict.purpose = None

C2_Witness ==
    /\ pc["c1"] = "done" /\ Op("c1") = "request_security_validation"
    /\ ~call["c1"].args.resetPassword
    /\ pc["c2"] = "done" /\ Op("c2") = "request_security_validation"
    /\ call["c2"].args.resetPassword

PostOpsButReset ==
    {"register", "delete_request", "delete_request_cancel", "check_device",
     "upload_image", "set_amino_id", "request_security_validation",
     "activate_email"}

\* C3 as stated: every POST operation other than reset_password sends a
\* payload that carries both a timestamp and a deviceID.
C3_EveryPostHasTimestampAndDeviceID ==
    \A c \in Callers :
        (Sent(c) /\ Op(c) \in PostOpsButReset)
            => HasKey(Data(c), "timestamp") /\ HasKey(Data(c), "deviceID")

TimestampOps ==
    {"register", "delete_request", "delete_request_cancel", "check_device",
     "set_amino_id", "request_security_validation", "activate_email"}

GeneratedDeviceOps ==
    {"register", "delete_request", "delete_request_cancel",
     "request_security_validation", "activate_email", "reset_password"}

\* t microseconds lie in the millisecond ms.
InMillisecond(t, ms) == ms * 1000 <= t /\ t < (ms + 1) * 1000

\* C3 as amended: register, delete_request, delete_request_cancel,
\* check_device, set_amino_id, request_security_validation and activate_email
\* carry the millisecond timestamp of the clock reading of that call;
\* register, delete_request, delete_request_cancel,
\* request_security_validation, activate_email and reset_password carry a
\* deviceID generated at that call, check_device the supplied one unchanged;
\* set_amino_id carries no deviceID, upload_image sends the raw bytes with
\* neither field, and reset_password has no top-level timestamp.
C3_TimestampAndDeviceIDPerOperation ==
    \A c \in Callers :
        Sent(c) =>
            /\ Op(c) \in TimestampOps
                => /\ HasKey(Data(c), "timestamp")
                   /\ "int" \in DOMAIN Data(c).dict.timestamp
                   /\ InMillisecond(call[c].clocks[1], Data(c).dict.timestamp.int)
            /\ Op(c) \in GeneratedDeviceOps
                => /\ HasKey(Data(c), "deviceID")
                   /\ Data(c).dict.deviceID = S(call[c].devs[Len(call[c].devs)])
            /\ Op(c) = "check_device"
                => /\ HasKey(Data(c), "deviceID")
                   /\ Data(c).dict.deviceID = call[c].args.deviceId
            /\ Op(c) = "set_amino_id" => ~HasKey(Data(c), "deviceID")
            /\ Op(c) = "upload_image"
                => /\ ~IsDict(Data(c))
                   /\ "bytes" \in DOMAIN Data(c)
                   /\ req[c].content_type = S("image/jpg")
            /\ Op(c) = "reset_password" => ~HasKey(Data(c), "timestamp")

C3_Witness ==
    /\ pc["c1"] = "done" /\ Op("c1") = "set_amino_id" /\ Sent("c1")
    /\ call["c1"].clocks = <<1000999>>
    /\ pc["c2"] = "done" /\ Op("c2") = "upload_image" /\ Sent("c2")

IsErrorResponse(r) ==
    /\ "status" \in DOMAIN r
    /\ (r.status >= 400 \/ r.json.statuscode # 0)

HasMissingField(c) ==
    /\ Op(c) \in {"register", "reset_password"}
    /\ \E k \in DOMAIN call[c].args : call[c].args[k] = None

\* C5: a call of register or reset_password with a required field missing
\* (None) ends in a ValidationError and hands no request to the transport.
C5_MissingFieldIsRejected ==
    \A c \in Callers :
        HasMissingField(c)
            => ~Sent(c) /\ (pc[c] = "done" => result[c] = Raised("ValidationError"))

\* C6: the number of requests handed to the transport equals the number of
\* calls made.
C6_OneRequestPerCall == nRequests = nCalls

RegisterKeysOfTable ==
    {"secret", "deviceID", "nickname", "timestamp", "validationContext"}

\* C7 as stated: the payload of register has exactly the keys secret,
\* deviceID, nickname, timestamp and validationContext, and
\* validationContext has the fields code, type and identity.
C7_RegisterPayloadIsTableRow ==
    \A c \in Callers :
        (Sent(c) /\ Op(c) = "register")
            => /\ DOMAIN Data(c).dict = RegisterKeysOfTable
               /\ DOMAIN Data(c).dict.validationContext.dict
                    = {"code", "type", "identity"}

RegisterKeys ==
    {"secret", "deviceID", "email", "clientType", "nickname",
     "validationContext", "type", "identity", "timestamp"}

\* C7 as amended: register sends, with POST to /g/s/auth/register, a payload
\* with exactly the keys secret, deviceID, email, clientType = 100,
\* nickname = username, validationContext, type = 1, identity = email and
\* timestamp, where validationContext has exactly data = {code:
\* verificationCode}, type = 1 and identity = email; what it returns is the
\* Authenticate wrapper of the handler's result.
C7_RegisterPayloadShape ==
    \A c \in Callers :
        (Sent(c) /\ Op(c) = "register")
            => /\ req[c].method = "POST"
               /\ req[c].url = "/g/s/auth/register"
               /\ IsDict(Data(c))
               /\ DOMAIN Data(c).dict = RegisterKeys
               /\ Data(c).dict.email = call[c].args.email
               /\ Data(c).dict.clientType = N(100)
               /\ Data(c).dict.nickname = call[c].args.username
               /\ Data(c).dict.type = N(1)
               /\ Data(c).dict.identity = call[c].args.email
               /\ Data(c).dict.validationContext =
                    Dict([data |-> Dict([code |-> call[c].args.verificationCode]),
                          type |-> N(1),
                          identity |-> call[c].args.email])
               /\ (pc[c] = "done" /\ "returned" \in DOMAIN result[c])
                    => /\ "wrapper" \in DOMAIN result[c].returned
                       /\ result[c].returned.wrapper = "Authenticate"
                       /\ result[c].returned.json = resp[c].json

C7_Witness ==
    \E c \in Callers :
        /\ pc[c] = "done" /\ Op(c) = "register"
        /\ call[c].args.verificationCode = S("123456")
        /\ "returned" \in DOMAIN result[c]

\* C8: the payload of reset_password has no top-level timestamp key, has
\* phoneNumberValidationContext present with None, a top-level deviceID, and
\* an emailValidationContext with the code, type = 1, identity = email,
\* level = 2 and a deviceID.
C8_ResetPasswordPayloadShape ==
    \A c \in Callers :
        (Sent(c) /\ Op(c) = "reset_password")
            => /\ IsDict(Data(c))
               /\ "timestamp" \notin DOMAIN Data(c).dict
               /\ "phoneNumberValidationContext" \in DOMAIN Data(c).dict
               /\ Data(c).dict.phoneNumberValidationContext = None
               /\ "deviceID" \in DOMAIN Data(c).dict
               /\ Data(c).dict.deviceID \in {S(d) : d \in DeviceIds}
               /\ LET evc == Data(c).dict.emailValidationContext.dict
                  IN  /\ DOMAIN evc = {"data", "type", "identity", "level", "deviceID"}
                      /\ evc.data = Dict([code |-> call[c].args.code])
                      /\ evc.type = N(1)
                      /\ evc.identity = call[c].args.email
                      /\ evc.level = N(2)
                      /\ evc.deviceID \in {S(d) : d \in DeviceIds}

C8_Witness ==
    \E c \in Callers :
        /\ pc[c] = "done" /\ Op(c) = "reset_password" /\ Sent(c)
        /\ call[c].args.code = S("123456")

\* Two calls with the same method, arguments and clock, device-id and file
\* readings have handed over the same request, and when they also received
\* the same response they ended the same way, whatever else has happened.
CallsAreIndependent ==
    \A c, d \in Callers :
        (call[c] # NoCall /\ call[c] = call[d])
            => /\ req[c] = req[d]
               /\ (pc[c] = "done" /\ pc[d] = "done" /\ resp[c] = resp[d])
                    => result[c] = result[d]

\* C9: no step changes the attributes of the client (session and debug), and
\* in every interleaving a call's request and result are determined by its
\* own arguments, readings and response.
C9_ClientIsStateless ==
    [][/\ client' = client
       /\ DOMAIN client' = {"session", "debug"}
       /\ CallsAreIndependent']_vars

C9_Witness ==
    /\ pc["c1"] = "done" /\ pc["c2"] = "done"
    /\ Op("c1") = "register" /\ call["c1"] = call["c2"]
    /\ resp["c1"] # resp["c2"]
    /\ result["c1"] # result["c2"]

\* C10: in every payload reset_password sends, the deviceID inside
\* emailValidationContext equals the top-level deviceID.
C10_ResetPasswordNamesOneDevice ==
    \A c \in Callers :
        (Sent(c) /\ Op(c) = "reset_password")
            => Data(c).dict.emailValidationContext.dict.deviceID
                 = Data(c).dict.deviceID

====
